---- MODULE Spec2Model ----
(***************************************************************************)
(* SimpleRigUI: the two Blender add-on scripts of BaseMeshesCharacterKit.   *)
(*   Blender4x/SimpleRigUI_blender4x.py  (bone-collection variant)          *)
(*   NendoroidSimpleRigUI.py             (legacy 32-bit layer variant)      *)
(* Each script defines two panels (poll + draw) and register/unregister.    *)
(* A Python call is modelled by its outcome: a returned value or the name   *)
(* of the exception that leaves the call.                                   *)
(***************************************************************************)
EXTENDS Integers, Sequences, FiniteSets

VARIABLES
    variant,              \* which script is loaded: its Character_rig_id
    mode,                 \* context.mode
    active_object,        \* context.active_object
    bones,                \* bone index -> bone.keys() of the active armature
    selected_pose_bones,  \* context.selected_pose_bones
    active_pose_bone,     \* context.active_pose_bone (0 is None)
    armatures,            \* bpy.data.armatures
    registry,             \* the host's registered panel classes
    preRegistry,          \* the registry as it was when register() was entered
    calls,                \* the host-registry calls made by the last handler
    prevOp,               \* the callback the host ran before the last one
    op,                   \* the callback the host ran last
    ret,                  \* its outcome
    layout                \* the widgets it emitted into self.layout

vars == <<variant, mode, active_object, bones, selected_pose_bones,
          active_pose_bone, armatures, registry, preRegistry, calls,
          prevOp, op, ret, layout>>

ctxVars == <<variant, mode, active_object, bones, selected_pose_bones,
             active_pose_bone, armatures>>

regVars == <<registry, preRegistry, calls>>

----------------------------------------------------------------------------
(* Bounds *)

MaxBones == 2

----------------------------------------------------------------------------
(* Python values *)

None == "None"
True == "True"
False == "False"

AttributeError == "AttributeError"
KeyError == "KeyError"
TypeError == "TypeError"
RuntimeError == "RuntimeError"
UnboundLocalError == "UnboundLocalError"

Exceptions == {AttributeError, KeyError, TypeError, RuntimeError, UnboundLocalError}

Raised(outcome) == outcome \in Exceptions

PyBool(b) == IF b THEN True ELSE False

\* try: <outcome>  except (<caught>): return <handler>
TryExcept(outcome, caught, handler) ==
    IF outcome \in caught THEN handler ELSE outcome

\* Python's  a in b  on strings: a is a contiguous substring of b.
\* Strings are sequences of one-character strings.
StrIn(a, b) ==
    \E i \in 0..(Len(b) - Len(a)) : SubSeq(b, i + 1, i + Len(a)) = a

----------------------------------------------------------------------------
(* The two scripts *)

B3D4X == "basemeshkit_b3d4x"
LEGACY == "ml20200703"

Variants == {B3D4X, LEGACY}

\* Character_rig_id of the loaded script
Character_rig_id == variant

----------------------------------------------------------------------------
(* The host's scene: objects, armature data blocks, pose bones *)

Modes == {"POSE", "OBJECT"}

\* The armature data block the collection variant's draw names (line 80)
RigArmatureName == "Rig_baseMeshesCharacterStarterKit"

ArmatureNames == {RigArmatureName, "Armature"}

\* context.active_object: None, or an object with a type and a data block
NoObject == [type |-> None, data |-> None]
EmptyObject == [type |-> "EMPTY", data |-> None]
MeshObject == [type |-> "MESH", data |-> "Cube"]
ArmatureObject(a) == [type |-> "ARMATURE", data |-> a]

\* custom-property keys of a pose bone, as strings
RNA_UI == <<"_", "R", "N", "A", "_", "U", "I">>
KeyUI == <<"U", "I">>
KeyIkFk == <<"i", "k", "_", "f", "k">>

\* the values bone.keys() takes in the scenes explored
KeyLists == { <<>>, <<RNA_UI>>, <<RNA_UI, KeyIkFk>>, <<KeyUI, KeyIkFk>> }

BoneIds == 1..MaxBones

\* context.selected_pose_bones: None, or a list of distinct bones
NoSelection == [isNone |-> TRUE, list |-> <<>>]
Selection(s) == [isNone |-> FALSE, list |-> s]

DistinctSeqs(S) ==
    { s \in UNION { [1..n -> S] : n \in 0..Cardinality(S) } :
        \A i, j \in DOMAIN s : i # j => s[i] # s[j] }

Selections == {NoSelection} \cup { Selection(s) : s \in DistinctSeqs(BoneIds) }

\* o.type, o.data, o.pose.bones: attribute access on None raises AttributeError;
\* Object.pose is None unless the object is an armature.
ObjectType(o) == IF o = NoObject THEN AttributeError ELSE o.type
ObjectData(o) == IF o = NoObject THEN AttributeError ELSE o.data
ObjectPoseBones(o) ==
    IF o = NoObject \/ o.type # "ARMATURE" THEN AttributeError ELSE "bones"

\* d.get("Character_rig_id"): None when the data block has no such key
DataGetRigId(d) ==
    IF d = None THEN AttributeError
    ELSE IF d \in DOMAIN armatures THEN armatures[d].rig_id
    ELSE None

----------------------------------------------------------------------------
(* Rig_PT_customproperties *)

\* line 25: except (TypeError)
PropsPollExcept == {TypeError}

\* the poll with its mode test (lines 20-21) left out
Rig_PT_customproperties_poll_NoModeTest ==
    TryExcept(
        LET t == ObjectType(active_object)
        IN  IF Raised(t) THEN t ELSE PyBool(t = "ARMATURE"),
        PropsPollExcept, False)

\* poll, lines 18-26 of both scripts
Rig_PT_customproperties_poll ==
    IF mode # "POSE" THEN False
    ELSE TryExcept(
            LET t == ObjectType(active_object)
            IN  IF Raised(t) THEN t ELSE PyBool(t = "ARMATURE"),
            PropsPollExcept, False)

\* widgets of the properties panel
BoxWidget(b) == [w |-> "box", box |-> 0, bone |-> b, key |-> <<>>]
LabelWidget(box, b, key) == [w |-> "label", box |-> box, bone |-> b, key |-> key]
PropWidget(box, b, key) == [w |-> "prop", box |-> box, bone |-> b, key |-> key]

\* lines 32-33: the names of the selected bones plus the active bone's
SelectedBoneNames ==
    IF selected_pose_bones.isNone THEN TypeError
    ELSE IF active_pose_bone = 0 THEN AttributeError
    ELSE "ok"

\* line 52: the test that decides whether a key is rendered
KeyIsRendered(key) == ~StrIn(key, RNA_UI)

\* lines 52-59: one pass of the inner loop; st.box is the box bound to the
\* local variable box (0 while it is unbound)
DrawKey(b, key, st) ==
    IF KeyIsRendered(key)
    THEN IF st.box = 0
         THEN [st EXCEPT !.ret = UnboundLocalError]
         ELSE [st EXCEPT !.layout =
                 @ \o <<LabelWidget(st.box, b, key), PropWidget(st.box, b, key)>>]
    ELSE st

RECURSIVE DrawKeys(_, _, _, _)
DrawKeys(b, ks, j, st) ==
    IF j > Len(ks) \/ Raised(st.ret) THEN st
    ELSE DrawKeys(b, ks, j + 1, DrawKey(b, ks[j], st))

\* lines 49-59: one pass of the outer loop
DrawBone(b, st) ==
    LET st1 == IF Len(bones[b]) > 0
               THEN [st EXCEPT !.box = Len(st.layout) + 1,
                               !.layout = Append(@, BoxWidget(b))]
               ELSE st
    IN  DrawKeys(b, bones[b], 1, st1)

\* line 48: the bones the loop visits
DisplayedBones == selected_pose_bones.list

RECURSIVE DrawBones(_, _, _)
DrawBones(bs, i, st) ==
    IF i > Len(bs) \/ Raised(st.ret) THEN st
    ELSE DrawBones(bs, i + 1, DrawBone(bs[i], st))

\* an except clause that misses the TypeError of iterating None
SelectionExcept_AttributeErrorOnly == {AttributeError}

\* line 34: except (AttributeError, TypeError)
SelectionExcept == {AttributeError, TypeError}

\* draw, lines 28-59 of both scripts
Rig_PT_customproperties_draw ==
    LET st0 == [ret |-> None, box |-> 0, layout |-> <<>>]
    IN  IF Raised(ObjectPoseBones(active_object))
        THEN [st0 EXCEPT !.ret = ObjectPoseBones(active_object)]
        ELSE LET names == TryExcept(SelectedBoneNames, SelectionExcept, "return")
             IN  IF names = "return" THEN st0
                 ELSE IF Raised(names) THEN [st0 EXCEPT !.ret = names]
                 ELSE DrawBones(DisplayedBones, 1, st0)

----------------------------------------------------------------------------
(* RigLayer *)

\* an except clause like the properties panel's, which misses AttributeError
LayerPollExcept_TypeErrorOnly == {TypeError}

\* line 75: except (AttributeError, KeyError, TypeError)
LayerPollExcept == {AttributeError, KeyError, TypeError}

\* poll, lines 71-76 of both scripts
RigLayer_poll ==
    TryExcept(
        LET d == ObjectData(active_object)
        IN  IF Raised(d) THEN d
            ELSE LET v == DataGetRigId(d)
                 IN  IF Raised(v) THEN v ELSE PyBool(v = Character_rig_id),
        LayerPollExcept, False)

\* One toggle of the hand-authored grid: layout row, column within the row,
\* the bone collection (a name) or layer (an index) it toggles, its label.
Toggle(row, col, item, text) ==
    [row |-> row, col |-> col, item |-> item, text |-> text]

\* SimpleRigUI_blender4x.py, lines 82-116
CollectionToggles == <<
    Toggle(1, 1, "ctrl-head", "Head"),
    Toggle(1, 1, "ctrl-neck", "Neck"),
    Toggle(1, 1, "ctrl-body", "Body(Main)"),
    Toggle(1, 1, "ctrl-body(tweak)", "Body(Tweak)"),
    Toggle(2, 1, "ctrl-arm_R(FK)", "Arm R(FK)"),
    Toggle(2, 1, "ctrl-arm_R(IK)", "Arm R(IK)"),
    Toggle(2, 1, "ctrl-arm_R(tweak)", "Arm R(Tweak)"),
    Toggle(2, 1, "ctrl-finger_R", "Finger R"),
    Toggle(2, 2, "ctrl-arm_L(FK)", "Arm L(FK)"),
    Toggle(2, 2, "ctrl-arm_L(IK)", "Arm L(IK)"),
    Toggle(2, 2, "ctrl-arm_L(tweak)", "Arm L(Tweak)"),
    Toggle(2, 2, "ctrl-finger_L", "Finger L"),
    Toggle(3, 1, "ctrl-leg_R(FK)", "Leg R(FK)"),
    Toggle(3, 1, "ctrl-leg_R(IK)", "Leg R(IK)"),
    Toggle(3, 1, "ctrl-leg_R(tweak)", "Leg R(Tweak)"),
    Toggle(3, 2, "ctrl-leg_L(FK)", "Leg L(FK)"),
    Toggle(3, 2, "ctrl-leg_L(IK)", "Leg L(IK)"),
    Toggle(3, 2, "ctrl-leg_L(tweak)", "Leg L(Tweak)"),
    Toggle(4, 1, "ctrl-root", "Root") >>

\* the legacy grid with a copy-paste slip: 'Arm R(IK)' left on index 19
LayerToggles_RepeatedIndex == <<
    Toggle(1, 1, 0, "Head"),
    Toggle(1, 1, 1, "Body(Main)"),
    Toggle(1, 1, 2, "Body(Tweak)"),
    Toggle(2, 1, 19, "Arm R(FK)"),
    Toggle(2, 1, 19, "Arm R(IK)"),
    Toggle(2, 1, 21, "Arm R(Tweak)"),
    Toggle(2, 1, 22, "Finger R"),
    Toggle(2, 2, 3, "Arm L(FK)"),
    Toggle(2, 2, 4, "Arm L(IK)"),
    Toggle(2, 2, 5, "Arm L(Tweak)"),
    Toggle(2, 2, 6, "Finger L"),
    Toggle(3, 1, 24, "Leg R(FK)"),
    Toggle(3, 1, 25, "Leg R(IK)"),
    Toggle(3, 1, 26, "Leg R(Tweak)"),
    Toggle(3, 2, 8, "Leg L(FK)"),
    Toggle(3, 2, 9, "Leg L(IK)"),
    Toggle(3, 2, 10, "Leg L(Tweak)"),
    Toggle(4, 1, 16, "Root") >>

\* NendoroidSimpleRigUI.py, lines 80-113
LayerToggles == <<
    Toggle(1, 1, 0, "Head"),
    Toggle(1, 1, 1, "Body(Main)"),
    Toggle(1, 1, 2, "Body(Tweak)"),
    Toggle(2, 1, 19, "Arm R(FK)"),
    Toggle(2, 1, 20, "Arm R(IK)"),
    Toggle(2, 1, 21, "Arm R(Tweak)"),
    Toggle(2, 1, 22, "Finger R"),
    Toggle(2, 2, 3, "Arm L(FK)"),
    Toggle(2, 2, 4, "Arm L(IK)"),
    Toggle(2, 2, 5, "Arm L(Tweak)"),
    Toggle(2, 2, 6, "Finger L"),
    Toggle(3, 1, 24, "Leg R(FK)"),
    Toggle(3, 1, 25, "Leg R(IK)"),
    Toggle(3, 1, 26, "Leg R(Tweak)"),
    Toggle(3, 2, 8, "Leg L(FK)"),
    Toggle(3, 2, 9, "Leg L(IK)"),
    Toggle(3, 2, 10, "Leg L(Tweak)"),
    Toggle(4, 1, 16, "Root") >>

AllCollections == { CollectionToggles[i].item : i \in DOMAIN CollectionToggles }

\* col.prop(<data block>[<collection>], 'is_visible', ...) and
\* col.prop(<data block>, 'layers', index=..., ...)
ToggleWidget(data, property, t) ==
    [w |-> "prop", data |-> data, property |-> property, item |-> t.item,
     text |-> t.text, row |-> t.row, col |-> t.col]

\* SimpleRigUI_blender4x.py line 80: the armature data block whose
\* collections the toggles are bound to; KeyError when there is none
CollectionOwner ==
    IF RigArmatureName \in DOMAIN armatures THEN RigArmatureName ELSE KeyError

\* collection["<name>"]: KeyError when the armature has no such collection
RECURSIVE DrawCollections(_, _, _)
DrawCollections(owner, i, st) ==
    IF i > Len(CollectionToggles) \/ Raised(st.ret) THEN st
    ELSE LET t == CollectionToggles[i]
         IN  DrawCollections(owner, i + 1,
                IF t.item \in armatures[owner].collections
                THEN [st EXCEPT !.layout =
                        Append(@, ToggleWidget(owner, "is_visible", t))]
                ELSE [st EXCEPT !.ret = KeyError])

\* col.prop(context.active_object.data, 'layers', index=i, ...): any index
\* 0..31 of the layer mask is addressable
RECURSIVE DrawLayers(_, _)
DrawLayers(i, st) ==
    IF i > Len(LayerToggles) \/ Raised(st.ret) THEN st
    ELSE LET d == ObjectData(active_object)
         IN  DrawLayers(i + 1,
                IF Raised(d) THEN [st EXCEPT !.ret = d]
                ELSE IF d = None THEN [st EXCEPT !.ret = TypeError]
                ELSE [st EXCEPT !.layout =
                        Append(@, ToggleWidget(d, "layers", LayerToggles[i]))])

\* draw, SimpleRigUI_blender4x.py lines 78-116
RigLayer_draw_b3d4x ==
    LET st0 == [ret |-> None, box |-> 0, layout |-> <<>>]
    IN  IF Raised(CollectionOwner) THEN [st0 EXCEPT !.ret = CollectionOwner]
        ELSE DrawCollections(CollectionOwner, 1, st0)

\* draw, NendoroidSimpleRigUI.py lines 78-113
RigLayer_draw_legacy ==
    DrawLayers(1, [ret |-> None, box |-> 0, layout |-> <<>>])

RigLayer_draw ==
    IF variant = B3D4X THEN RigLayer_draw_b3d4x ELSE RigLayer_draw_legacy

----------------------------------------------------------------------------
(* register / unregister *)

\* bl_idname of the two panel classes (lines 13 and 65 of both scripts)
ID_customproperties == "UI_PT_customproperties"
ID_rig_layer == "UI_PT_rig_layer"

PanelIds == {ID_rig_layer, ID_customproperties}

\* panels of the host and of other add-ons
OtherPanels == {"VIEW3D_PT_view3d_properties", "VIEW3D_PT_tools_active",
                "OTHER_PT_addon"}

\* the classes register() hands to bpy.utils.register_class, in call order
RegisterOrder == <<ID_rig_layer, ID_customproperties>>

\* unregister() undoing the registrations last-in first-out
UnregisterOrder_Reversed == <<ID_customproperties, ID_rig_layer>>

\* unregister() forgetting the second class
UnregisterOrder_FirstOnly == <<ID_rig_layer>>

\* the classes unregister() hands to bpy.utils.unregister_class, in call order
UnregisterOrder == <<ID_rig_layer, ID_customproperties>>

RegCall(fn, id) == [fn |-> fn, id |-> id]

\* bpy.utils.register_class: a panel registered under an idname already in
\* use replaces the earlier one
RECURSIVE RunRegister(_, _, _)
RunRegister(order, i, st) ==
    IF i > Len(order) \/ Raised(st.ret) THEN st
    ELSE RunRegister(order, i + 1,
            [st EXCEPT !.registry = @ \cup {order[i]},
                       !.calls = Append(@, RegCall("register_class", order[i]))])

\* bpy.utils.unregister_class: RuntimeError for a class that is not registered
RECURSIVE RunUnregister(_, _, _)
RunUnregister(order, i, st) ==
    IF i > Len(order) \/ Raised(st.ret) THEN st
    ELSE RunUnregister(order, i + 1,
            IF order[i] \in st.registry
            THEN [st EXCEPT !.registry = @ \ {order[i]},
                            !.calls = Append(@, RegCall("unregister_class", order[i]))]
            ELSE [st EXCEPT !.ret = RuntimeError])

\* register(), the whole handler
register ==
    RunRegister(RegisterOrder, 1, [ret |-> None, registry |-> registry, calls |-> <<>>])

\* unregister(), the whole handler
unregister ==
    RunUnregister(UnregisterOrder, 1, [ret |-> None, registry |-> registry, calls |-> <<>>])

----------------------------------------------------------------------------
(* The host's calls *)

OpPropsPoll == "Rig_PT_customproperties.poll"
OpPropsDraw == "Rig_PT_customproperties.draw"
OpLayerPoll == "RigLayer.poll"
OpLayerDraw == "RigLayer.draw"

\* the host asks the properties panel whether to show it
PropsPoll ==
    /\ op' = OpPropsPoll
    /\ prevOp' = op
    /\ ret' = Rig_PT_customproperties_poll
    /\ layout' = <<>>
    /\ UNCHANGED <<ctxVars, regVars>>

\* the host draws the properties panel, its poll having just returned True
PropsDraw ==
    /\ op = OpPropsPoll /\ ret = True
    /\ op' = OpPropsDraw
    /\ prevOp' = op
    /\ ret' = Rig_PT_customproperties_draw.ret
    /\ layout' = Rig_PT_customproperties_draw.layout
    /\ UNCHANGED <<ctxVars, regVars>>

\* the host asks the layer panel whether to show it
LayerPoll ==
    /\ op' = OpLayerPoll
    /\ prevOp' = op
    /\ ret' = RigLayer_poll
    /\ layout' = <<>>
    /\ UNCHANGED <<ctxVars, regVars>>

\* the host draws the layer panel, its poll having just returned True
LayerDraw ==
    /\ op = OpLayerPoll /\ ret = True
    /\ op' = OpLayerDraw
    /\ prevOp' = op
    /\ ret' = RigLayer_draw.ret
    /\ layout' = RigLayer_draw.layout
    /\ UNCHANGED <<ctxVars, regVars>>

\* the script is loaded (or run again): register()
Register ==
    /\ op' = "register"
    /\ prevOp' = op
    /\ preRegistry' = registry
    /\ registry' = register.registry
    /\ calls' = register.calls
    /\ ret' = register.ret
    /\ UNCHANGED <<ctxVars, layout>>

\* the script is unloaded: unregister()
Unregister ==
    /\ op' = "unregister"
    /\ prevOp' = op
    /\ registry' = unregister.registry
    /\ calls' = unregister.calls
    /\ ret' = unregister.ret
    /\ UNCHANGED <<ctxVars, preRegistry, layout>>

\* another add-on registers or unregisters one of its own panels
HostPanel ==
    \E p \in OtherPanels :
        /\ op' = "host"
        /\ prevOp' = op
        /\ registry' = IF p \in registry THEN registry \ {p} ELSE registry \cup {p}
        /\ calls' = <<>>
        /\ ret' = None
        /\ UNCHANGED <<ctxVars, preRegistry, layout>>

----------------------------------------------------------------------------
(* Specifications *)

Idle ==
    /\ op = "idle" /\ prevOp = "idle" /\ ret = None /\ layout = <<>>
    /\ calls = <<>>

\* the collection variant's rig, complete and tagged for the loaded script
DefaultArmatures ==
    [a \in {RigArmatureName} |->
        [rig_id |-> variant, collections |-> AllCollections]]

\* Properties panel: every mode, active object, selection and bone
\* custom-property table within the bounds
InitProps ==
    /\ Idle
    /\ variant \in Variants
    /\ mode \in Modes
    /\ armatures = DefaultArmatures
    /\ registry = PanelIds /\ preRegistry = {}
    /\ active_object \in {NoObject, MeshObject, ArmatureObject(RigArmatureName)}
    /\ IF active_object.type = "ARMATURE"
       THEN /\ bones \in [BoneIds -> KeyLists]
            /\ selected_pose_bones \in Selections
            /\ active_pose_bone \in {0} \cup BoneIds
       ELSE /\ bones = [b \in BoneIds |-> <<>>]
            /\ selected_pose_bones \in {NoSelection, Selection(<<>>)}
            /\ active_pose_bone = 0

NextProps == PropsPoll \/ PropsDraw

SpecProps == InitProps /\ [][NextProps]_vars

\* what an armature data block may carry: no rig tag or either script's, and
\* every named collection, all but one, or none (a legacy armature)
ArmatureDatas ==
    [rig_id : {None} \cup Variants,
     collections : {AllCollections, AllCollections \ {"ctrl-neck"}, {}}]

\* Layer panel: every set of armature data blocks and every active object
InitLayer ==
    /\ Idle
    /\ variant \in Variants
    /\ mode = "OBJECT"
    /\ armatures \in UNION { [D -> ArmatureDatas] : D \in SUBSET ArmatureNames }
    /\ registry = PanelIds /\ preRegistry = {}
    /\ active_object \in {NoObject, EmptyObject, MeshObject}
                           \cup { ArmatureObject(a) : a \in DOMAIN armatures }
    /\ bones = [b \in BoneIds |-> <<>>]
    /\ selected_pose_bones = NoSelection
    /\ active_pose_bone = 0

NextLayer == LayerPoll \/ LayerDraw

SpecLayer == InitLayer /\ [][NextLayer]_vars

\* Registration: the script is not loaded yet; the host registry holds any
\* panels of its own
InitRegistry ==
    /\ Idle
    /\ variant \in Variants
    /\ mode = "OBJECT"
    /\ armatures = DefaultArmatures
    /\ registry \in SUBSET OtherPanels /\ preRegistry = registry
    /\ active_object = NoObject
    /\ bones = [b \in BoneIds |-> <<>>]
    /\ selected_pose_bones = NoSelection
    /\ active_pose_bone = 0

NextRegistry == Register \/ Unregister \/ HostPanel

SpecRegistry == InitRegistry /\ [][NextRegistry]_vars

----------------------------------------------------------------------------
(* Properties of the Properties panel (checked under SpecProps) *)

\* C1: the Properties-panel guard never raises: in every context, pose mode
\* with no active object included, it returns True or False, and False when
\* there is no active object.
C1_PropsPollNeverRaises ==
    op = OpPropsPoll =>
        /\ ret \in {True, False}
        /\ active_object = NoObject => ret = False

\* C3: in every context that has an active object, the Properties-panel guard
\* returns True if and only if the mode is pose mode and the active object's
\* type is armature.
C3_PropsPollIffPoseArmature ==
    (op = OpPropsPoll /\ active_object # NoObject) =>
        ret = PyBool(mode = "POSE" /\ active_object.type = "ARMATURE")

C3_Witness ==
    /\ op = OpPropsPoll /\ ret = True
    /\ mode = "POSE" /\ active_object.type = "ARMATURE"

\* the widgets of one kind emitted for key k of bone b
Rendered(kind, b, k) ==
    { i \in DOMAIN layout :
        layout[i].w = kind /\ layout[i].bone = b /\ layout[i].key = k }

\* bone b has a grouped box in the panel
HasBox(b) == \E i \in DOMAIN layout : layout[i].w = "box" /\ layout[i].bone = b

\* C4: for every displayed bone, every custom-property key other than
\* '_RNA_UI' gets exactly one label and one slider, and '_RNA_UI' gets none.
C4_RenderedKeysAreAllButRnaUi ==
    op = OpPropsDraw =>
        \A b \in BoneIds : HasBox(b) =>
            \A j \in DOMAIN bones[b] :
                LET k == bones[b][j]
                    n == IF k = RNA_UI THEN 0 ELSE 1
                IN  /\ Cardinality(Rendered("label", b, k)) = n
                    /\ Cardinality(Rendered("prop", b, k)) = n

\* the selected pose bones plus the active pose bone
SelectedPlusActive ==
    { selected_pose_bones.list[i] : i \in DOMAIN selected_pose_bones.list }
        \cup (IF active_pose_bone = 0 THEN {} ELSE {active_pose_bone})

\* C5: the bones given a box are exactly the bones among the selected pose
\* bones plus the active pose bone that have at least one custom property.
C5_BoxesForSelectedPlusActive ==
    op = OpPropsDraw =>
        \A b \in BoneIds :
            HasBox(b) <=> (b \in SelectedPlusActive /\ Len(bones[b]) > 0)

\* C6: drawn after its guard returned True, with an empty selection or with
\* selected_pose_bones or active_pose_bone None, the Properties panel emits no
\* widget and returns without raising.
C6_NothingDrawnWithoutSelection ==
    ( /\ op = OpPropsDraw
      /\ \/ selected_pose_bones.isNone
         \/ selected_pose_bones.list = <<>>
         \/ active_pose_bone = 0 )
    => (ret = None /\ layout = <<>>)

C6_Witness ==
    /\ op = OpPropsDraw /\ prevOp = OpPropsPoll
    /\ ~selected_pose_bones.isNone /\ selected_pose_bones.list = <<>>
    /\ active_pose_bone # 0 /\ Len(bones[active_pose_bone]) > 0
    /\ ret = None /\ layout = <<>>

----------------------------------------------------------------------------
(* Properties of the Rig Layer panel (checked under SpecLayer) *)

\* the active object's data carries Character_rig_id equal to the script's
ActiveDataCarriesRigId ==
    /\ active_object # NoObject
    /\ active_object.data \in DOMAIN armatures
    /\ armatures[active_object.data].rig_id = variant

\* C2: the Rig Layer guard returns True exactly when the active object's data
\* carries "Character_rig_id" equal to the script's constant, and False,
\* without raising, in every other context.
C2_LayerPollFailClosed ==
    op = OpLayerPoll => ret = PyBool(ActiveDataCarriesRigId)

C2_Witness ==
    /\ op = OpLayerPoll /\ ret = False
    /\ active_object # NoObject
    /\ active_object.data \in DOMAIN armatures
    /\ armatures[active_object.data].rig_id \in Variants \ {variant}

\* C7: drawn after its guard returned True, the legacy layer panel never
\* fails; the collection-based one fails only if a named collection is absent
\* on the active object's armature, and when it succeeds every toggle is bound
\* to the active object's armature.
C7_LayerDrawBoundToActiveArmature ==
    op = OpLayerDraw =>
        /\ variant = LEGACY => ~Raised(ret)
        /\ variant = B3D4X =>
            /\ Raised(ret) =>
                 ~(AllCollections \subseteq armatures[active_object.data].collections)
            /\ ~Raised(ret) =>
                 \A i \in DOMAIN layout : layout[i].data = active_object.data

\* the (label, index) pairs rendered
RenderedBindings == { <<layout[i].text, layout[i].item>> : i \in DOMAIN layout }

\* the toggles form a one-to-one binding of n labels to n layer indices 0..31
BindsDistinctLayers(n) ==
    /\ Len(layout) = n
    /\ \A i \in DOMAIN layout :
          layout[i].property = "layers" /\ layout[i].item \in 0..31
    /\ \A i, j \in DOMAIN layout : i # j =>
          layout[i].item # layout[j].item /\ layout[i].text # layout[j].text

\* C8 as stated: every redraw of the legacy layer panel renders exactly 13
\* toggles, each label bound to one distinct layer index in 0..31.
C8_ThirteenLegacyToggles ==
    (op = OpLayerDraw /\ variant = LEGACY) => BindsDistinctLayers(13)

\* C8 amended: every redraw of the legacy layer panel renders the same 18
\* toggles, each label bound to one distinct layer index in 0..31, on the
\* indices 0-6, 8-10, 16, 19-22 and 24-26 and on no other.
C8_EighteenLegacyToggles ==
    (op = OpLayerDraw /\ variant = LEGACY) =>
        /\ BindsDistinctLayers(18)
        /\ { layout[i].item : i \in DOMAIN layout }
             = (0..6) \cup (8..10) \cup {16} \cup (19..22) \cup (24..26)

C8_Witness ==
    /\ op = OpLayerDraw /\ variant = LEGACY /\ ret = None
    /\ <<"Root", 16>> \in RenderedBindings

----------------------------------------------------------------------------
(* Properties of the registration lifecycle (checked under SpecRegistry) *)

\* the classes the last handler passed to the host, in call order
CalledIds == [i \in DOMAIN calls |-> calls[i].id]

\* C9 as stated: register() registers RigLayer, then Rig_PT_customproperties;
\* unregister() removes them in the reverse order.
C9_UnregistersInReverse ==
    /\ op = "register" => CalledIds = <<ID_rig_layer, ID_customproperties>>
    /\ (op = "unregister" /\ ret = None) =>
          CalledIds = <<ID_customproperties, ID_rig_layer>>

\* C9 amended: register() registers RigLayer, then Rig_PT_customproperties;
\* unregister() removes them in the same order, RigLayer first.
C9_UnregistersInRegistrationOrder ==
    /\ op = "register" =>
          /\ CalledIds = <<ID_rig_layer, ID_customproperties>>
          /\ \A i \in DOMAIN calls : calls[i].fn = "register_class"
    /\ (op = "unregister" /\ ret = None) =>
          /\ CalledIds = <<ID_rig_layer, ID_customproperties>>
          /\ \A i \in DOMAIN calls : calls[i].fn = "unregister_class"

C9_Witness ==
    /\ op = "unregister" /\ prevOp = "register" /\ ret = None
    /\ Len(calls) = Len(RegisterOrder)

\* C10: from a registry holding neither panel identifier, register() adds
\* exactly the two identifiers, and unregister() right after it leaves the
\* registry as it was before register().
C10_RegisterUnregisterRoundTrip ==
    /\ (op = "register" /\ preRegistry \cap PanelIds = {}) =>
          /\ registry \ preRegistry = PanelIds
          /\ preRegistry \subseteq registry
          /\ Cardinality(registry) = Cardinality(preRegistry) + 2
    /\ (op = "unregister" /\ prevOp = "register" /\ preRegistry \cap PanelIds = {}) =>
          /\ ret = None
          /\ registry = preRegistry

C10_Witness ==
    /\ op = "unregister" /\ prevOp = "register"
    /\ preRegistry \cap PanelIds = {} /\ preRegistry # {}
    /\ registry = preRegistry

====
